---- MODULE Spec2Model ----
(***************************************************************************)
(* Model of the attendance backend (src/backend/main.py): the process-wide *)
(* face cache (global_known_encodings / global_known_student_ids), the     *)
(* MySQL tables it reads and writes, the startup load and the two request  *)
(* handlers register_student and capture_attendance.                       *)
(*                                                                         *)
(* Scheduling.  Both handlers are `async def` coroutines whose bodies      *)
(* (lines 159-232 and 244-306) contain no `await`: every call in them      *)
(* (file copy, face_recognition, mysql.connector) is synchronous.  The     *)
(* event loop therefore runs a handler body from its first line to its     *)
(* return or raise before any other handler body starts, so one handler    *)
(* is one action.  Requests that are in flight at the same time are        *)
(* served in an arbitrary order (specification SpecRace).                  *)
(*                                                                         *)
(* Numbers.  Face encodings are vectors of floats.  The model uses vectors *)
(* of integers counted in units of 1/8, so 0.5 is 4 units, and carries     *)
(* every distance as its square (np.linalg.norm is the square root of the  *)
(* sum of squared differences; squaring is monotone on non-negative        *)
(* numbers, so <, <= and argmin are decided alike).                        *)
(***************************************************************************)
EXTENDS Integers, Sequences, FiniteSets

VARIABLES
    phase,                      \* "startup" until lines 132-136 have run, then "serving"
    startup,                    \* what lines 132-136 printed and left in the cache
    global_known_encodings,     \* main.py:130  the cached encodings
    global_known_student_ids,   \* main.py:130  the cached ids, same positions
    students,                   \* table students: the set of student_id
    face_encodings,             \* table face_encodings: rows in insertion order
    attendance,                 \* table attendance: rows in insertion order
    request,                    \* the inputs of the handler call that ran last
    response,                   \* what that call returned or raised
    before,                     \* the cache and the tables when that call began
    calls                       \* SpecRace: the enrolment requests in flight

vars == <<phase, startup, global_known_encodings, global_known_student_ids, students,
          face_encodings, attendance, request, response, before, calls>>

----------------------------------------------------------------------------
(* Bounds and input sets *)

MaxFaces == 2        \* most faces face_encodings() finds in one image
MaxLoaded == 1       \* most rows already in the database when the process starts
MaxAttendance == 1   \* most rows of the attendance table
MaxCalls == 3        \* most enrolment requests in flight at once (SpecRace)

\* Student ids in the order the registrar issues them.  The handlers only
\* compare ids for equality, so a request brings either an id that is already
\* in the students table (any of them) or the next id not yet issued.
IdOrder == <<"S001", "S002", "S003">>
StudentIds == {IdOrder[i] : i \in 1..Len(IdOrder)}
UnissuedIds(studs, n) ==
    {IdOrder[i] : i \in {j \in 1..Len(IdOrder) :
                            Cardinality(studs) < j /\ j <= Cardinality(studs) + n}}
RequestIds(studs) == studs \cup UnissuedIds(studs, 1)

\* Encodings in units of 1/8.  Distances: (0,0)-(3,0) = 3, (3,0)-(6,0) = 3,
\* (0,0)-(6,0) = 6, (0,0)-(0,4) = 4 (exactly 0.5), (3,0)-(0,4) = 5.
Faces == {<<0, 0>>, <<3, 0>>, <<6, 0>>, <<0, 4>>}

\* A second person standing in the frame: encodings[1:] of a crowded image.
Bystander == <<6, 0>>

None == "None"

\* The list face_recognition.face_encodings returns for an image with n faces
\* of which the first is e.
EncodingsOf(n, e) == [i \in 1..n |-> IF i = 1 THEN e ELSE Bystander]

EncodingLists == {<<>>} \cup {EncodingsOf(n, e) : n \in 1..MaxFaces, e \in Faces}

\* What the database does during one handler call.  "conn1"/"conn4"/"conn":
\* that get_db_connection raises HTTPException 500 (lines 98-100); "write":
\* an INSERT or the commit of lines 205-218 raises a mysql Error; "log": the
\* SELECT, the INSERT or the commit of lines 277-286 raises a mysql Error.
\* (get_db_connection returning None needs connect() to return a connection
\* that is not connected; mysql.connector raises instead.)
RegisterFaults == {"none", "conn1", "conn4", "write"}
CaptureFaults == {"none", "conn", "log"}

----------------------------------------------------------------------------
(* face_recognition and numpy *)

RECURSIVE SumSq(_, _, _)
SumSq(a, b, i) ==
    IF i = 0 THEN 0 ELSE (a[i] - b[i]) * (a[i] - b[i]) + SumSq(a, b, i - 1)

\* np.linalg.norm(a - b), squared, in (1/8)^2 units
SqNorm(a, b) == SumSq(a, b, Len(a))

\* face_recognition.face_distance: one distance per known encoding
face_distance(known, face) == [i \in 1..Len(known) |-> SqNorm(known[i], face)]

\* a float threshold, squared to compare with a squared distance
Sq(x) == x * x

\* face_distance subtracts the query from the array of known encodings
\* (face_encodings - face_to_compare).  numpy does that when every known
\* encoding has the length of the query, and raises ValueError (operands
\* could not be broadcast together) when the lengths differ and none of them
\* is 1, as for all vectors here.
Broadcasts(known, face) == \A i \in 1..Len(known) : Len(known[i]) = Len(face)

\* tolerance=0.5 at the duplicate check, in units of 1/8
Tolerance == 4

\* the 0.5 the best distance is compared with at capture, in units of 1/8
RecognitionThreshold == 4

\* A variant with the comparison turned round.
compare_faces_inverted(known, face, tolerance) ==
    [i \in 1..Len(known) |-> face_distance(known, face)[i] >= Sq(tolerance)]

\* face_recognition.compare_faces: list(face_distance(known, face) <= tolerance)
\* A variant with a strict comparison.
compare_faces_strict(known, face, tolerance) ==
    [i \in 1..Len(known) |-> SqNorm(known[i], face) < Sq(tolerance)]

compare_faces(known, face, tolerance) ==
    [i \in 1..Len(known) |-> face_distance(known, face)[i] <= Sq(tolerance)]

\* Python `v in lst`
Contains(lst, v) == \E i \in 1..Len(lst) : lst[i] = v

\* A variant that returns the last position holding v.
ListIndex_last(lst, v) ==
    CHOOSE i \in 1..Len(lst) : lst[i] = v /\ \A j \in (i + 1)..Len(lst) : lst[j] # v

\* Python lst.index(v): the first position holding v
ListIndex(lst, v) ==
    CHOOSE i \in 1..Len(lst) : lst[i] = v /\ \A j \in 1..(i - 1) : lst[j] # v

\* A variant that returns the last position holding the minimum.
argmin_last(d) ==
    CHOOSE i \in 1..Len(d) :
        /\ \A j \in 1..Len(d) : d[i] <= d[j]
        /\ \A j \in (i + 1)..Len(d) : d[j] > d[i]

\* np.argmin: the first position holding the minimum
argmin(d) ==
    CHOOSE i \in 1..Len(d) :
        /\ \A j \in 1..Len(d) : d[i] <= d[j]
        /\ \A j \in 1..(i - 1) : d[j] > d[i]

\* json.dumps(encoding.tolist()) and json.loads + np.array: the column holds
\* text, not a vector; Python's float repr reads back to the same float.
json_dumps(encoding) == [json |-> encoding]
json_loads(text) == text.json

----------------------------------------------------------------------------
(* Startup: lines 102-136 *)

Range(s) == {s[i] : i \in 1..Len(s)}

RowOrders(s) ==
    {p \in [1..Len(s) -> Range(s)] : \A i, j \in 1..Len(s) : i # j => p[i] # p[j]}

\* A variant that returns the rows although the fetch reported an error.
load_known_faces_keeps_rows(rows, query) ==
    [encodings |-> [i \in 1..Len(rows) |-> json_loads(rows[i].face_vector)],
     student_ids |-> [i \in 1..Len(rows) |-> rows[i].student_id]]

\* load_known_faces: the two lists built from the fetched rows; a mysql Error
\* from execute/fetchall is caught before any row is appended.
load_known_faces(rows, query) ==
    IF query = "ok"
    THEN [encodings |-> [i \in 1..Len(rows) |-> json_loads(rows[i].face_vector)],
          student_ids |-> [i \in 1..Len(rows) |-> rows[i].student_id]]
    ELSE [encodings |-> <<>>, student_ids |-> <<>>]

NoRequest == [op |-> "none", student_id |-> None, encodings |-> <<>>]

\* status, success, student_id and name are what the client receives; outcome
\* names the return or raise statement taken; existing_id and matched_id are
\* the locals of lines 196 and 270; step is the numbered step of the handler
\* ("# 1." .. "# 4.") that ended the call; fault is the database fault the
\* call ran into, "none" when every database call it made succeeded.
Resp(status, success, outcome, student_id, name, existing_id, matched_id, step, fault) ==
    [status |-> status, success |-> success, outcome |-> outcome,
     student_id |-> student_id, name |-> name,
     existing_id |-> existing_id, matched_id |-> matched_id, step |-> step,
     fault |-> fault]

NoResponse == Resp(0, FALSE, "none", None, None, None, None, 0, "none")

Store(encs, ids, studs, att) ==
    [encodings |-> encs, student_ids |-> ids, students |-> studs, attendance |-> att]

\* What the startup lines print: "loaded" for line 134 after a fetch that
\* worked, "failed" for the error of line 118 (the lists stay empty and line
\* 134 reports 0 faces) and for the warning of line 136.  encodings and
\* student_ids are the cache as line 133 or line 130 left it, rows the
\* number of face_encodings rows in the database at that time.
StartupLog(conn, query) ==
    IF conn = "ok" /\ query = "ok" THEN "loaded" ELSE "failed"

NotStarted(rows) == [log |-> "none", encodings |-> <<>>, student_ids |-> <<>>, rows |-> Len(rows)]

\* Lines 130-136.  conn is what get_db_connection does (returns a connection
\* or raises HTTPException); what it raises is caught at line 135 and the
\* globals keep the empty lists of line 130.  SELECT has no ORDER BY, so the
\* rows arrive in an order the server chooses.
Startup(conn, query, rows) ==
    /\ phase = "startup"
    /\ LET loaded == load_known_faces(rows, query)
       IN  IF conn = "ok"
           THEN /\ global_known_encodings' = loaded.encodings
                /\ global_known_student_ids' = loaded.student_ids
           ELSE /\ global_known_encodings' = <<>>
                /\ global_known_student_ids' = <<>>
    /\ startup' = [log |-> StartupLog(conn, query),
                   encodings |-> global_known_encodings',
                   student_ids |-> global_known_student_ids',
                   rows |-> Len(face_encodings)]
    /\ phase' = "serving"
    /\ UNCHANGED <<students, face_encodings, attendance, request, response, before, calls>>

----------------------------------------------------------------------------
(* register_student: lines 150-232 *)

\* raise HTTPException(status_code, detail) and the 200 return of line 224
Raised(status, outcome, existing_id, step, fault) ==
    Resp(status, FALSE, outcome, None, None, existing_id, None, step, fault)

\* A variant whose lookup never finds a row.
StudentIdExists_never(studs, student_id) == FALSE

\* lines 163-164: SELECT student_id FROM students WHERE student_id = %s
StudentIdExists(studs, student_id) == student_id \in studs

\* A variant without the check for more than one face.
FaceCountError_only_zero(encodings) ==
    IF Len(encodings) = 0 THEN "NoFaceDetected" ELSE ""

\* lines 179-185: the two checks on len(encodings); "" when both pass
FaceCountError(encodings) ==
    IF Len(encodings) = 0 THEN "NoFaceDetected"
    ELSE IF Len(encodings) > 1 THEN "AmbiguousImage"
    ELSE ""

\* A variant that skips the comparison while the cache holds one face.
DuplicateOf_needs_two(known_encodings, known_ids, new_encoding) ==
    IF Len(known_encodings) > 1
    THEN LET matches == compare_faces(known_encodings, new_encoding, Tolerance)
         IN  IF Contains(matches, TRUE)
             THEN known_ids[ListIndex(matches, TRUE)]
             ELSE None
    ELSE None

\* lines 191-196: the id the new face duplicates, or None
DuplicateOf(known_encodings, known_ids, new_encoding) ==
    IF Len(known_encodings) > 0
    THEN LET matches == compare_faces(known_encodings, new_encoding, Tolerance)
         IN  IF Contains(matches, TRUE)
             THEN known_ids[ListIndex(matches, TRUE)]
             ELSE None
    ELSE None

\* lines 203-218 and 226-227: the two INSERTs and the commit are one
\* transaction; a mysql Error at any of them leads to conn.rollback().
SaveToDatabase(studs, rows, student_id, new_encoding, fault) ==
    LET inserted ==
            [students |-> studs \cup {student_id},
             rows |-> Append(rows, [student_id |-> student_id,
                                    face_vector |-> json_dumps(new_encoding)])]
    IN  IF fault # "write"
        THEN [committed |-> TRUE, students |-> inserted.students, rows |-> inserted.rows]
        ELSE [committed |-> FALSE, students |-> studs, rows |-> rows]

\* A variant that updates the cache before the outcome of the commit is known.
UpdateMemoryCache_eager(encs, ids, new_encoding, student_id, committed) ==
    [encodings |-> Append(encs, new_encoding), student_ids |-> Append(ids, student_id)]

\* A variant that puts the new id at the front of the id list.
UpdateMemoryCache_misaligned(encs, ids, new_encoding, student_id, committed) ==
    IF committed
    THEN [encodings |-> Append(encs, new_encoding), student_ids |-> <<student_id>> \o ids]
    ELSE [encodings |-> encs, student_ids |-> ids]

\* lines 220-222, reached only after conn.commit() returned
\* A variant that puts the new student in front.
UpdateMemoryCache_in_front(encs, ids, new_encoding, student_id, committed) ==
    IF committed
    THEN [encodings |-> <<new_encoding>> \o encs, student_ids |-> <<student_id>> \o ids]
    ELSE [encodings |-> encs, student_ids |-> ids]

UpdateMemoryCache(encs, ids, new_encoding, student_id, committed) ==
    IF committed
    THEN [encodings |-> Append(encs, new_encoding), student_ids |-> Append(ids, student_id)]
    ELSE [encodings |-> encs, student_ids |-> ids]

\* The whole handler as a function of the state it reads and its inputs.
\* Nothing in the handler catches the ValueError of the comparison of line
\* 192: the call ends with the server's plain 500 "Internal Server Error".
\* fault is the database fault waiting for the call; the response records it
\* when the call gets to the database call it strikes.
register_student(encs, ids, studs, rows, student_id, encodings, fault) ==
    LET keep(resp) == [encodings |-> encs, student_ids |-> ids, students |-> studs,
                       rows |-> rows, response |-> resp]
        dup == DuplicateOf(encs, ids, encodings[1])
        saved == SaveToDatabase(studs, rows, student_id, encodings[1], fault)
        cache == UpdateMemoryCache(encs, ids, encodings[1], student_id, saved.committed)
    IN  IF fault = "conn1" THEN keep(Raised(500, "ConnectionFailed", None, 1, "conn1"))
        ELSE IF StudentIdExists(studs, student_id)
             THEN keep(Raised(409, "AlreadyRegisteredId", None, 1, "none"))
        ELSE IF FaceCountError(encodings) # ""
             THEN keep(Raised(400, FaceCountError(encodings), None, 2, "none"))
        ELSE IF ~Broadcasts(encs, encodings[1])
             THEN keep(Raised(500, "ValueError", None, 3, "none"))
        ELSE IF dup # None THEN keep(Raised(409, "DuplicatePerson", dup, 3, "none"))
        ELSE IF fault = "conn4" THEN keep(Raised(500, "ConnectionFailed", None, 4, "conn4"))
        ELSE [encodings |-> cache.encodings, student_ids |-> cache.student_ids,
              students |-> saved.students, rows |-> saved.rows,
              response |-> IF fault = "write"
                           THEN Raised(500, "PersistenceFailure", None, 4, "write")
                           ELSE Resp(200, TRUE, "Registered", None, None, None, None, 4, "none")]

RegisterRequest(student_id, encodings) ==
    [op |-> "register", student_id |-> student_id, encodings |-> encodings]

\* One call of the handler.  A fault the call never gets to is no fault:
\* that call is the one with fault "none".
RegisterCall(student_id, encodings, fault) ==
    /\ phase = "serving"
    /\ \E r \in {register_student(global_known_encodings, global_known_student_ids,
                                 students, face_encodings, student_id, encodings, fault)} :
           /\ r.response.fault = fault
           /\ global_known_encodings' = r.encodings
           /\ global_known_student_ids' = r.student_ids
           /\ students' = r.students
           /\ face_encodings' = r.rows
           /\ response' = r.response
    /\ request' = RegisterRequest(student_id, encodings)
    /\ before' = Store(global_known_encodings, global_known_student_ids, students, attendance)
    /\ UNCHANGED <<phase, startup, attendance>>

Register(student_id, encodings, fault) ==
    /\ RegisterCall(student_id, encodings, fault)
    /\ UNCHANGED calls

----------------------------------------------------------------------------
(* capture_attendance: lines 235-306 *)

\* line 279: the display name read from the students row, "Unknown" without one
NameOf(studs, student_id) ==
    IF student_id \in studs
    THEN CASE student_id = "S001" -> "Asha Rao"
           [] student_id = "S002" -> "Bilal Khan"
           [] OTHER -> "Chen Li"
    ELSE "Unknown"

\* A variant that reports the matched id whatever became of the call.
Returned_with_id(success, outcome, student_id, name, matched_id, step, fault) ==
    Resp(200, success, outcome, matched_id, name, None, matched_id, step, fault)

\* return AttendanceResponse(...): lines 255, 262, 288-294, 297 and 302
Returned(success, outcome, student_id, name, matched_id, step, fault) ==
    Resp(200, success, outcome, student_id, name, None, matched_id, step, fault)

\* lines 265-270 and 301-302: the index of the best match when its distance
\* is below the threshold, 0 otherwise
BestMatch(known_encodings, unknown_encoding) ==
    LET face_distances == face_distance(known_encodings, unknown_encoding)
        best_match_index == argmin(face_distances)
    IN  IF face_distances[best_match_index] < Sq(RecognitionThreshold)
        THEN best_match_index
        ELSE 0

\* lines 273-300: the attendance row is committed unless the connection or a
\* statement fails; the connection is closed without commit on a mysql Error.
LogAttendance(att, student_id, fault) ==
    IF fault = "none" THEN Append(att, student_id) ELSE att

\* A variant that remembers the captured face.
CacheAfterCapture_learns(encs, ids, encodings) ==
    IF Len(encodings) > 0 /\ Len(encs) > 0
    THEN [encodings |-> Append(encs, encodings[1]), student_ids |-> ids]
    ELSE [encodings |-> encs, student_ids |-> ids]

\* The cache after a capture: the handler only reads the two lists.
CacheAfterCapture(encs, ids, encodings) == [encodings |-> encs, student_ids |-> ids]

\* The ValueError of line 265 passes the finally of line 304 and ends the
\* call with the server's plain 500 "Internal Server Error"; so does the
\* HTTPException of get_db_connection, with its own detail.
capture_attendance(encs, ids, studs, att, encodings, fault) ==
    LET keep(resp) == [attendance |-> att, response |-> resp]
        best == BestMatch(encs, encodings[1])
        student_id == ids[best]
    IN  IF Len(encodings) = 0
        THEN keep(Returned(FALSE, "NoFaceDetected", None, None, None, 1, "none"))
        ELSE IF Len(encs) = 0
        THEN keep(Returned(FALSE, "NoRegisteredStudents", None, None, None, 2, "none"))
        ELSE IF ~Broadcasts(encs, encodings[1])
        THEN keep(Resp(500, FALSE, "ValueError", None, None, None, None, 2, "none"))
        ELSE IF best = 0
        THEN keep(Returned(FALSE, "NotRecognized", None, None, None, 2, "none"))
        ELSE IF fault = "conn"
        THEN keep(Resp(500, FALSE, "ConnectionFailed", None, None, None, student_id, 3, "conn"))
        ELSE IF fault = "log"
        THEN keep(Returned(FALSE, "AttendanceLogFailure", None, None, student_id, 3, "log"))
        ELSE [attendance |-> LogAttendance(att, student_id, fault),
              response |-> Returned(TRUE, "Recognized", student_id,
                                    NameOf(studs, student_id), student_id, 3, "none")]

CaptureRequest(encodings) ==
    [op |-> "capture", student_id |-> None, encodings |-> encodings]

CaptureCall(encodings, fault) ==
    /\ phase = "serving"
    /\ \E r \in {capture_attendance(global_known_encodings, global_known_student_ids,
                                   students, attendance, encodings, fault)},
          c \in {CacheAfterCapture(global_known_encodings, global_known_student_ids, encodings)} :
           /\ r.response.fault = fault
           /\ Len(r.attendance) <= MaxAttendance
           /\ attendance' = r.attendance
           /\ response' = r.response
           /\ global_known_encodings' = c.encodings
           /\ global_known_student_ids' = c.student_ids
    /\ request' = CaptureRequest(encodings)
    /\ before' = Store(global_known_encodings, global_known_student_ids, students, attendance)
    /\ UNCHANGED <<phase, startup, students, face_encodings>>

Capture(encodings, fault) ==
    /\ CaptureCall(encodings, fault)
    /\ UNCHANGED calls

----------------------------------------------------------------------------
(* Initial states: the process has executed line 130; the database holds   *)
(* what earlier runs of register_student committed: one face_encodings row *)
(* per student, each with its students row.                                *)

RowsOver(idseq) ==
    {r \in [1..Len(idseq) -> [student_id : StudentIds, face_vector : {json_dumps(f) : f \in Faces}]] :
        \A i \in 1..Len(idseq) : r[i].student_id = idseq[i]}

IdSeqs == {SubSeq(IdOrder, 1, n) : n \in 0..MaxLoaded}

InitialRows == UNION {RowsOver(s) : s \in IdSeqs}

Init ==
    /\ phase = "startup"
    /\ global_known_encodings = <<>>
    /\ global_known_student_ids = <<>>
    /\ face_encodings \in InitialRows
    /\ students = {face_encodings[i].student_id : i \in 1..Len(face_encodings)}
    /\ attendance = <<>>
    /\ request = NoRequest
    /\ response = NoResponse
    /\ before = Store(<<>>, <<>>, students, <<>>)
    /\ startup = NotStarted(face_encodings)
    /\ calls = <<>>

Next ==
    \/ /\ phase = "startup"
       /\ \E conn \in {"ok", "error"}, query \in {"ok", "error"},
             rows \in RowOrders(face_encodings) :
               Startup(conn, query, rows)
    \/ \E student_id \in RequestIds(students), encodings \in EncodingLists, fault \in RegisterFaults :
           Register(student_id, encodings, fault)
    \/ \E encodings \in EncodingLists, fault \in CaptureFaults :
           Capture(encodings, fault)

Spec == Init /\ [][Next]_vars

----------------------------------------------------------------------------
(* A database whose face_encodings rows were written by an encoder of      *)
(* another dimension.  load_known_faces takes every face_vector as it is   *)
(* (line 114); face_recognition.face_encodings keeps producing vectors of  *)
(* its own length for the uploaded images.                                 *)

ForeignFaces == {<<0, 0, 0>>, <<6, 0, 0>>}

ForeignRowsOver(idseq) ==
    {r \in [1..Len(idseq) -> [student_id : StudentIds,
                              face_vector : {json_dumps(f) : f \in ForeignFaces}]] :
        \A i \in 1..Len(idseq) : r[i].student_id = idseq[i]}

InitForeign ==
    /\ phase = "startup"
    /\ global_known_encodings = <<>>
    /\ global_known_student_ids = <<>>
    /\ face_encodings \in UNION {ForeignRowsOver(ids) : ids \in IdSeqs \ {<<>>}}
    /\ students = {face_encodings[i].student_id : i \in 1..Len(face_encodings)}
    /\ attendance = <<>>
    /\ request = NoRequest
    /\ response = NoResponse
    /\ before = Store(<<>>, <<>>, students, <<>>)
    /\ startup = NotStarted(face_encodings)
    /\ calls = <<>>

SpecForeign == InitForeign /\ [][Next]_vars

----------------------------------------------------------------------------
(* Requests in flight at the same time.  The process has loaded the        *)
(* database; MaxCalls or fewer enrolment requests, each with its own       *)
(* unissued id and all with the same encoding, which no cached encoding    *)
(* matches, have arrived together with at most one capture request showing *)
(* that same face.  The event loop runs their handler bodies one at a time *)
(* in an order it chooses.                                                 *)

InFlight(op, student_id, encodings) ==
    [op |-> op, student_id |-> student_id, encodings |-> encodings,
     done |-> FALSE, response |-> NoResponse]

RaceCalls(studs, face) ==
    {[i \in 1..(n + k) |->
        IF i <= n THEN InFlight("register", IdOrder[Cardinality(studs) + i], <<face>>)
                  ELSE InFlight("capture", None, <<face>>)] :
        n \in {m \in 2..MaxCalls : Cardinality(studs) + m <= Len(IdOrder)}, k \in 0..1}

InitRace ==
    /\ phase = "serving"
    /\ face_encodings \in InitialRows
    /\ students = {face_encodings[i].student_id : i \in 1..Len(face_encodings)}
    /\ LET loaded == load_known_faces(face_encodings, "ok")
       IN  /\ global_known_encodings = loaded.encodings
           /\ global_known_student_ids = loaded.student_ids
    /\ attendance = <<>>
    /\ request = NoRequest
    /\ response = NoResponse
    /\ before = Store(global_known_encodings, global_known_student_ids, students, <<>>)
    /\ startup = [log |-> "loaded", encodings |-> global_known_encodings,
                  student_ids |-> global_known_student_ids, rows |-> Len(face_encodings)]
    /\ \E face \in Faces :
          /\ \A i \in 1..Len(global_known_encodings) :
                SqNorm(global_known_encodings[i], face) > Sq(Tolerance)
          /\ calls \in RaceCalls(students, face)

Served(i) == [calls EXCEPT ![i].done = TRUE, ![i].response = response']

ServeRegister(i, fault) ==
    /\ calls[i].op = "register"
    /\ ~calls[i].done
    /\ RegisterCall(calls[i].student_id, calls[i].encodings, fault)
    /\ calls' = Served(i)

ServeCapture(i, fault) ==
    /\ calls[i].op = "capture"
    /\ ~calls[i].done
    /\ CaptureCall(calls[i].encodings, fault)
    /\ calls' = Served(i)

NextRace ==
    \/ \E i \in 1..Len(calls), fault \in RegisterFaults : ServeRegister(i, fault)
    \/ \E i \in 1..Len(calls), fault \in CaptureFaults : ServeCapture(i, fault)

SpecRace == InitRace /\ [][NextRace]_vars

----------------------------------------------------------------------------
(* Properties *)

IsRegister == request.op = "register"
IsCapture == request.op = "capture"

\* The cache is what it was when the last call began.
StoreUnchanged ==
    /\ global_known_encodings = before.encodings
    /\ global_known_student_ids = before.student_ids

\* The id lookup of lines 160-164 reached the database.
LookupAnswered == response.fault # "conn1"

\* The face the last call presented first.
Query == request.encodings[1]

\* Positions of the cache, as the last call found it, whose encoding lies
\* within dist2 (a squared distance) of the query, bound included or not.
Within(dist2) ==
    {i \in 1..Len(before.encodings) : SqNorm(before.encodings[i], Query) <= dist2}
Below(dist2) ==
    {i \in 1..Len(before.encodings) : SqNorm(before.encodings[i], Query) < dist2}

Least(S) == CHOOSE i \in S : \A j \in S : i <= j

\* ---- SpecRace ----

Enrolments == {i \in 1..Len(calls) : calls[i].op = "register"}
Captures == {i \in 1..Len(calls) : calls[i].op = "capture"}
RaceFace == calls[1].encodings[1]
Succeeded == {i \in Enrolments : calls[i].done /\ calls[i].response.outcome = "Registered"}
Rejected == {i \in Enrolments : calls[i].done /\ calls[i].response.outcome = "DuplicatePerson"}
Faulted == {i \in Enrolments : calls[i].done /\ calls[i].response.fault # "none"}
AllEnrolmentsDone == \A i \in Enrolments : calls[i].done

\* C1: N >= 2 enrolment requests in flight together, with distinct ids and the
\* same encoding, against a cache without that person.  The cache never
\* holds two entries for that encoding and at most one request succeeds;
\* every request served without a database fault either succeeds or is
\* rejected as a duplicate of the one that succeeded; and once all are
\* served with no database fault, exactly one has succeeded and the other
\* N-1 were rejected with DuplicatePerson.
C1_OneEnrolmentPerFace ==
    /\ Cardinality({k \in 1..Len(global_known_encodings) :
                        global_known_encodings[k] = RaceFace}) <= 1
    /\ Cardinality(Succeeded) <= 1
    /\ \A i \in Enrolments \ Faulted :
          calls[i].done =>
            \/ i \in Succeeded
            \/ /\ i \in Rejected
               /\ \E j \in Succeeded : calls[i].response.existing_id = calls[j].student_id
    /\ (AllEnrolmentsDone /\ Faulted = {}) =>
          /\ Cardinality(Succeeded) = 1
          /\ Cardinality(Rejected) = Cardinality(Enrolments) - 1

\* All requests served without a database fault, one enrolled, the others rejected.
C1_Witness ==
    /\ Cardinality(Enrolments) >= 2
    /\ AllEnrolmentsDone
    /\ Faulted = {}
    /\ Succeeded # {}
    /\ Rejected # {}

\* C4: a capture in flight together with enrolments finds the cache either
\* as it was before an append or as it is after it: the two lists have the
\* same length, every position pairs an id with the encoding that id was
\* enrolled with (its face_encodings row), and the id a capture matched is
\* that of an enrolment that had already succeeded and whose enrolled
\* encoding is within the threshold of the captured face.
C4_AlignedSnapshot ==
    /\ Len(global_known_encodings) = Len(global_known_student_ids)
    /\ \A i \in 1..Len(global_known_student_ids) :
          [student_id |-> global_known_student_ids[i],
           face_vector |-> json_dumps(global_known_encodings[i])] \in Range(face_encodings)
    /\ \A c \in Captures :
          (calls[c].done /\ calls[c].response.matched_id # None) =>
            /\ \E j \in Succeeded : calls[j].student_id = calls[c].response.matched_id
            /\ \E r \in Range(face_encodings) :
                  /\ r.student_id = calls[c].response.matched_id
                  /\ SqNorm(json_loads(r.face_vector), calls[c].encodings[1])
                        < Sq(RecognitionThreshold)

\* A capture served after the enrolment it was in flight with, matching its id.
C4_Witness ==
    \E c \in Captures : \E j \in Succeeded :
        /\ calls[c].done
        /\ calls[c].response.matched_id = calls[j].student_id
        /\ Len(global_known_student_ids) >= 2

\* ---- Spec ----

\* C2: an enrolment whose database write fails ends with the 500 of line 229
\* and leaves the cache and the students table as they were (so does one
\* whose connection for the write fails); and every id in the cache has
\* its rows in the database.
C2_CacheNeverAheadOfDatabase ==
    /\ (IsRegister /\ response.fault = "write") =>
          /\ response.outcome = "PersistenceFailure"
          /\ response.status = 500
          /\ StoreUnchanged
          /\ students = before.students
    /\ (IsRegister /\ response.fault = "conn4") =>
          /\ response.status = 500
          /\ StoreUnchanged
          /\ students = before.students
    /\ \A i \in 1..Len(global_known_student_ids) :
          /\ global_known_student_ids[i] \in students
          /\ \E r \in Range(face_encodings) : r.student_id = global_known_student_ids[i]

\* A failed write of a new student's rows while the cache holds a face.
C2_Witness ==
    /\ IsRegister
    /\ response.fault = "write"
    /\ Len(global_known_student_ids) >= 1

\* C3: no id occurs twice in the cache.
C3_OneEntryPerId ==
    \A i, j \in 1..Len(global_known_student_ids) :
        i # j => global_known_student_ids[i] # global_known_student_ids[j]

\* A loaded cache that an enrolment extended and a second enrolment with the
\* same id then left alone.
C3_Witness ==
    /\ Len(global_known_student_ids) >= 2
    /\ IsRegister
    /\ response.outcome = "AlreadyRegisteredId"
    /\ request.student_id = global_known_student_ids[Len(global_known_student_ids)]

\* C5: an enrolment with an id that is in the students table is rejected with
\* 409 AlreadyRegisteredId whenever the id lookup reaches the database,
\* whatever the image shows, and the cache and the table stay as they were.
C5_RegisteredIdRejected ==
    (IsRegister /\ request.student_id \in before.students /\ LookupAnswered) =>
        /\ response.outcome = "AlreadyRegisteredId"
        /\ response.status = 409
        /\ StoreUnchanged
        /\ students = before.students

\* A registered id presented with one face that is far from every cached face.
C5_Witness ==
    /\ IsRegister
    /\ request.student_id \in before.students
    /\ Len(request.encodings) = 1
    /\ Len(before.encodings) >= 1
    /\ Within(Sq(Tolerance)) = {}
    /\ response.outcome = "AlreadyRegisteredId"

\* C6: an enrolment with an id not in the students table and exactly one
\* face, within the tolerance of a cached encoding, is rejected with 409
\* DuplicatePerson naming the id at the position of a matching encoding,
\* and the cache stays as it was (the id lookup having reached the database).
C6_DuplicatePersonRejected ==
    (/\ IsRegister
     /\ request.student_id \notin before.students
     /\ LookupAnswered
     /\ Len(request.encodings) = 1
     /\ Within(Sq(Tolerance)) # {}) =>
        /\ response.outcome = "DuplicatePerson"
        /\ response.status = 409
        /\ response.existing_id \in {before.student_ids[i] : i \in Within(Sq(Tolerance))}
        /\ StoreUnchanged
        /\ students = before.students

\* A new id with a face near, but not equal to, a cached one.
C6_Witness ==
    /\ IsRegister
    /\ response.outcome = "DuplicatePerson"
    /\ Below(Sq(Tolerance)) # {}
    /\ \A i \in 1..Len(before.encodings) : before.encodings[i] # Query

\* C7 as stated: for every id, registered or not, an enrolment with zero
\* faces fails with NoFaceDetected and one with several faces with
\* AmbiguousImage, the cache unchanged.
C7_FaceCountDecidesForEveryId ==
    (IsRegister /\ LookupAnswered /\ Len(request.encodings) # 1) =>
        /\ response.outcome =
              (IF Len(request.encodings) = 0 THEN "NoFaceDetected" ELSE "AmbiguousImage")
        /\ StoreUnchanged

\* C7 amended: the id check comes first.  With an id that is not in the
\* students table, zero faces give 400 NoFaceDetected and several faces 400
\* AmbiguousImage; with an id that is in the table the call is rejected with
\* AlreadyRegisteredId whatever the face count; the cache is unchanged.
C7_FaceCountAfterIdCheck ==
    (IsRegister /\ LookupAnswered /\ Len(request.encodings) # 1) =>
        /\ response.outcome =
              (IF request.student_id \in before.students THEN "AlreadyRegisteredId"
               ELSE IF Len(request.encodings) = 0 THEN "NoFaceDetected"
               ELSE "AmbiguousImage")
        /\ response.status =
              (IF request.student_id \in before.students THEN 409 ELSE 400)
        /\ StoreUnchanged

\* A new id with a crowded image, presented to a cache that holds a face.
C7_Witness ==
    /\ IsRegister
    /\ Len(request.encodings) > 1
    /\ request.student_id \notin before.students
    /\ Len(before.encodings) >= 1
    /\ response.outcome = "AmbiguousImage"

\* C8: a capture leaves both lists of the cache as they were, whatever it
\* returns.
C8_CaptureReadsOnly == IsCapture => StoreUnchanged

\* A capture that matched a cached face and then failed to log attendance.
C8_Witness ==
    /\ IsCapture
    /\ response.outcome = "AttendanceLogFailure"
    /\ Len(global_known_encodings) >= 2

\* C9: a capture with at least one face.  On an empty cache nobody is
\* recognised.  Otherwise the match is decided at the smallest position of
\* minimal distance: its id is matched iff that distance is strictly below
\* the threshold, and the response then carries that id with success (unless
\* writing the attendance row fails); with the distance at or above the
\* threshold the response is NotRecognized and carries no id.
C9_NearestDecides ==
    (IsCapture /\ Len(request.encodings) >= 1) =>
        IF Len(before.encodings) = 0
        THEN /\ ~response.success
             /\ response.outcome = "NoRegisteredStudents"
             /\ response.matched_id = None /\ response.student_id = None
        ELSE LET d(i) == SqNorm(before.encodings[i], Query)
                 first == Least({i \in 1..Len(before.encodings) :
                                    \A j \in 1..Len(before.encodings) : d(i) <= d(j)})
             IN  IF d(first) < Sq(RecognitionThreshold)
                 THEN /\ response.matched_id = before.student_ids[first]
                      /\ response.success = (response.fault = "none")
                      /\ response.success =>
                            /\ response.outcome = "Recognized"
                            /\ response.student_id = before.student_ids[first]
                 ELSE /\ response.outcome = "NotRecognized"
                      /\ ~response.success
                      /\ response.matched_id = None /\ response.student_id = None

\* Two cached faces equally near the captured one: the earlier is recognised.
C9_Witness ==
    /\ IsCapture
    /\ response.success
    /\ Len(before.encodings) >= 2
    /\ response.student_id = before.student_ids[1]
    /\ SqNorm(before.encodings[1], Query) = SqNorm(before.encodings[2], Query)
    /\ before.encodings[1] # before.encodings[2]

\* The last call reached the duplicate check of lines 189-198.
ReachedDuplicateCheck ==
    /\ IsRegister
    /\ LookupAnswered
    /\ request.student_id \notin before.students
    /\ Len(request.encodings) = 1

\* C10 as stated: the duplicate check reports a duplicate exactly when some
\* cached encoding is strictly nearer than the tolerance, names the first
\* such one, and reports none on an empty cache.
C10_DuplicateBelowTolerance ==
    ReachedDuplicateCheck =>
        IF Below(Sq(Tolerance)) # {}
        THEN /\ response.outcome = "DuplicatePerson"
             /\ response.existing_id = before.student_ids[Least(Below(Sq(Tolerance)))]
        ELSE response.outcome # "DuplicatePerson" /\ response.step = 4

\* C10 amended: the check reports a duplicate exactly when some cached
\* encoding is at a distance of at most the tolerance (compare_faces uses
\* <=, so a distance equal to 0.5 is a duplicate, whereas capture needs a
\* distance strictly below 0.5); it names the id at the first such
\* position, and on an empty cache it reports none.
C10_DuplicateUpToTolerance ==
    ReachedDuplicateCheck =>
        IF Within(Sq(Tolerance)) # {}
        THEN /\ response.outcome = "DuplicatePerson"
             /\ response.existing_id = before.student_ids[Least(Within(Sq(Tolerance)))]
        ELSE response.outcome # "DuplicatePerson" /\ response.step = 4

\* A face at exactly the tolerance from the only cached face it matches.
C10_Witness ==
    /\ ReachedDuplicateCheck
    /\ response.outcome = "DuplicatePerson"
    /\ Below(Sq(Tolerance)) = {}
    /\ Within(Sq(Tolerance)) # {}

\* No row has been added to face_encodings since the process started.
NoEnrolmentSinceStartup == Len(face_encodings) = startup.rows

C12_EnrolledThenRecognised ==
    [][(/\ IsRegister
        /\ response.outcome = "Registered"
        /\ request'.op = "capture"
        /\ Len(request'.encodings) >= 1
        /\ request'.encodings[1] = request.encodings[1]) =>
            /\ response'.matched_id = request.student_id
            /\ \E i \in 1..Len(global_known_student_ids') :
                  /\ global_known_student_ids'[i] = response'.matched_id
                  /\ SqNorm(global_known_encodings'[i], request'.encodings[1]) = 0
            /\ response'.success = (response'.fault = "none")
            /\ response'.success =>
                  /\ response'.outcome = "Recognized"
                  /\ response'.student_id = request.student_id]_vars

\* A capture recognising the student this process enrolled last, into a cache
\* that already held somebody else.
C12_Witness ==
    /\ IsCapture
    /\ response.success
    /\ Len(global_known_student_ids) >= 2
    /\ Len(global_known_student_ids) > Len(startup.student_ids)
    /\ Query = global_known_encodings[Len(global_known_encodings)]
    /\ response.student_id = global_known_student_ids[Len(global_known_student_ids)]

\* C14: a capture response carries a student id exactly when success is true,
\* and a display name exactly then; the attendance table gets a row only
\* from a capture that answers success true, the row of the id it answers
\* with; a capture that ends with no face, an empty cache, no match or a
\* database error when logging answers success false without an id; an
\* enrolment leaves the attendance table alone.
C14_IdOnlyWithSuccess ==
    /\ IsCapture =>
          /\ response.success <=> response.student_id # None
          /\ response.success <=> response.name # None
          /\ attendance = IF response.success
                          THEN Append(before.attendance, response.student_id)
                          ELSE before.attendance
          /\ response.outcome \in {"NoFaceDetected", "NoRegisteredStudents",
                                   "NotRecognized", "AttendanceLogFailure"} =>
                /\ ~response.success
                /\ response.student_id = None
          /\ response.success <=> response.outcome = "Recognized"
    /\ IsRegister => attendance = before.attendance

\* A student whose attendance is on record is matched again and the write fails.
C14_Witness ==
    /\ IsCapture
    /\ response.outcome = "AttendanceLogFailure"
    /\ response.matched_id # None
    /\ Len(before.attendance) >= 1
    /\ attendance = before.attendance

\* C15: when the cache was empty after startup, then after any enrolment
\* calls, successful or not, any two entries of the cache hold encodings
\* farther apart than the duplicate tolerance.
C15_CachedFacesFarApart ==
    (phase = "serving" /\ startup.encodings = <<>>) =>
        \A i, j \in 1..Len(global_known_encodings) :
            i # j => SqNorm(global_known_encodings[i], global_known_encodings[j])
                        > Sq(Tolerance)

\* Two students enrolled into an empty cache, and then a third person at
\* exactly the tolerance from the first turned away.
C15_Witness ==
    /\ startup.log # "none"
    /\ startup.encodings = <<>>
    /\ Len(global_known_encodings) >= 2
    /\ ReachedDuplicateCheck
    /\ response.outcome = "DuplicatePerson"
    /\ Below(Sq(Tolerance)) = {}

IsPrefix(s, t) == Len(s) <= Len(t) /\ SubSeq(t, 1, Len(s)) = s

Pairs(ids, encs) == [i \in 1..Len(ids) |-> <<ids[i], encs[i]>>]

\* C16: once loaded, the cache only grows at its end.  The pairs the startup
\* load left are a prefix of the cache in every later state, and the pairs a
\* call found are a prefix of the pairs it leaves (being a prefix is
\* transitive, so the cache of any state is a prefix of the cache of every
\* later one): no entry is removed, replaced or moved.
C16_AppendOnly ==
    phase = "serving" =>
        /\ Len(global_known_student_ids) = Len(global_known_encodings)
        /\ IsPrefix(Pairs(startup.student_ids, startup.encodings),
                    Pairs(global_known_student_ids, global_known_encodings))
        /\ IsPrefix(Pairs(before.student_ids, before.encodings),
                    Pairs(global_known_student_ids, global_known_encodings))

\* An enrolment that extended a loaded cache.
C16_Witness ==
    /\ IsRegister
    /\ response.outcome = "Registered"
    /\ Len(startup.student_ids) >= 1
    /\ Len(before.student_ids) >= 1
    /\ Len(global_known_student_ids) = Len(before.student_ids) + 1

\* ---- SpecForeign ----

\* The last call compared its first face with a cache holding an encoding of
\* another length (lines 192 and 265).
ComparedAcrossDimensions ==
    /\ \/ IsCapture /\ Len(request.encodings) >= 1
       \/ ReachedDuplicateCheck
    /\ \E i \in 1..Len(before.encodings) : Len(before.encodings[i]) # Len(Query)

\* C13: a capture or an enrolment whose encoding has another dimension than
\* the cached encodings ends with the typed result DimensionMismatch,
\* without a match decision and without an untyped failure, and leaves the
\* cache as it was.
C13_DimensionMismatchIsTyped ==
    ComparedAcrossDimensions =>
        /\ response.outcome = "DimensionMismatch"
        /\ response.matched_id = None /\ response.existing_id = None
        /\ StoreUnchanged

====
